---- MODULE Spec2Model ----
(***************************************************************************)
(* A model of src/src/LLMCore.py: LlamaModel's context tracking            *)
(* (evaluate), token sampling (sampleTokenWithModel), the token generator  *)
(* (generateTokens) and the byte-safe generation loop (generate).          *)
(*                                                                         *)
(* Strings are sequences of bytes (integers 0..255).  A Python str is      *)
(* represented by its UTF-8 encoding, so bytes.decode("utf8", "ignore")    *)
(* is the operator that drops every byte that is not part of a well-formed *)
(* character.  The inference engine (llama_cpp) is external: its token     *)
(* table and its forward pass are fixed tables, its status code and its    *)
(* random draws are nondeterministic choices.                              *)
(***************************************************************************)
EXTENDS Integers, Sequences, FiniteSets, TLC

---------------------------------------------------------------------------
(* Bounds of the model *)

\* context capacity the model is built with (parameters.nCtx, which
\* llama_n_ctx(context) returns)
nCtx == 4
\* largest n_predict a configuration carries
MaxPredict == 1
\* largest batch size handed to evaluate by an outside caller
MaxBatch == 2
\* number of generate calls made on one model
MaxCalls == 2
\* largest logit a row holds when an outside caller samples from it
MaxLogit == 10

---------------------------------------------------------------------------
(* Program constants *)

EOSToken == 32000
exitTokens == <<32002, 32001>>
\* batch size generateTokens hands to evaluate
GenBatch == 64
\* the (number, pattern) pairs of the incomplete-byte scan
Patterns == <<<<2, 192>>, <<3, 224>>, <<4, 240>>>>

---------------------------------------------------------------------------
(* Generic helpers *)

Min(a, b) == IF a < b THEN a ELSE b
Max(a, b) == IF a > b THEN a ELSE b

Range(s) == {s[i] : i \in 1..Len(s)}

\* a[lo:hi] of Python for 0 <= lo, on a sequence (0-based, clamped)
Slice(s, lo, hi) == SubSeq(s, Min(lo, Len(s)) + 1, Min(hi, Len(s)))

RECURSIVE BitAnd(_, _)
BitAnd(a, b) ==
    IF a = 0 \/ b = 0 THEN 0
    ELSE (IF a % 2 = 1 /\ b % 2 = 1 THEN 1 ELSE 0) + 2 * BitAnd(a \div 2, b \div 2)

\* "pat in buf" of Python bytes
Contains(buf, pat) ==
    \E i \in 1..(Len(buf) - Len(pat) + 1) : SubSeq(buf, i, i + Len(pat) - 1) = pat

\* buf.index(pat), 0-based; only used when Contains(buf, pat)
IndexOf(buf, pat) ==
    (CHOOSE i \in 1..(Len(buf) - Len(pat) + 1) :
        /\ SubSeq(buf, i, i + Len(pat) - 1) = pat
        /\ \A j \in 1..(i - 1) : SubSeq(buf, j, j + Len(pat) - 1) # pat) - 1

---------------------------------------------------------------------------
(* UTF-8 *)

IsCont(b) == b >= 128 /\ b <= 191

\* bytes a character starting with b has; 0 for a byte that starts none
Need(b) ==
    IF b < 128 THEN 1
    ELSE IF b >= 194 /\ b <= 223 THEN 2
    ELSE IF b >= 224 /\ b <= 239 THEN 3
    ELSE IF b >= 240 /\ b <= 244 THEN 4
    ELSE 0

\* the second byte of a character is further restricted after E0, ED, F0, F4
SecondOk(lead, b) ==
    /\ IsCont(b)
    /\ (lead = 224 => b >= 160)
    /\ (lead = 237 => b <= 159)
    /\ (lead = 240 => b >= 144)
    /\ (lead = 244 => b <= 143)

\* number of well-formed continuation bytes that follow the lead byte at i,
\* counted up to the number the lead byte asks for
RECURSIVE ContRun(_, _, _, _)
ContRun(buf, i, j, need) ==
    IF j >= need \/ i + j > Len(buf) THEN j - 1
    ELSE IF (IF j = 1 THEN SecondOk(buf[i], buf[i + j]) ELSE IsCont(buf[i + j]))
         THEN ContRun(buf, i, j + 1, need)
         ELSE j - 1

\* bytes.decode("utf8", errors="ignore"), as the UTF-8 encoding of the result
RECURSIVE DecodeFrom(_, _)
DecodeFrom(buf, i) ==
    IF i > Len(buf) THEN <<>>
    ELSE LET need == Need(buf[i])
         IN IF need = 0 THEN DecodeFrom(buf, i + 1)
            ELSE LET run == ContRun(buf, i, 1, need)
                 IN IF run = need - 1
                    THEN SubSeq(buf, i, i + run) \o DecodeFrom(buf, i + need)
                    ELSE DecodeFrom(buf, i + run + 1)

Decode(buf) == DecodeFrom(buf, 1)

\* len() of a str given by its UTF-8 encoding
StrLen(s) == Cardinality({i \in 1..Len(s) : ~IsCont(s[i])})

---------------------------------------------------------------------------
(* The engine's vocabulary, as far as the model follows it *)

\* ordinary tokens and the bytes llama_token_to_piece gives for each:
\* "A", "AB", the lead byte of a 3-byte character, one continuation byte,
\* two continuation bytes, the lead byte of a 4-byte character
WordTokens == 0..5
StopTokens == {EOSToken} \cup Range(exitTokens)
Vocab == WordTokens \cup StopTokens

tokenToByte(token) ==
    CASE token = 0 -> <<65>>
      [] token = 1 -> <<65, 66>>
      [] token = 2 -> <<226>>
      [] token = 3 -> <<130>>
      [] token = 4 -> <<130, 172>>
      [] token = 5 -> <<241>>
      [] OTHER -> <<>>

RECURSIVE BytesOf(_)
BytesOf(toks) ==
    IF toks = <<>> THEN <<>> ELSE tokenToByte(Head(toks)) \o BytesOf(Tail(toks))

tokensToString(toks) == Decode(BytesOf(toks))

\* position of a token in the candidate array (ids ascending)
Rank(v) ==
    IF v \in WordTokens THEN v
    ELSE Cardinality(WordTokens) + Cardinality({w \in StopTokens : w < v})

\* the logits row the forward pass leaves for token tok evaluated at
\* position pos: a fixed table, every entry in 1..5
LlamaGetLogits(tok, pos) ==
    [v \in Vocab |-> ((3 * Rank(tok) + 2 * pos + Rank(v) * Rank(v)) % 5) + 1]

\* a cell of inputIds, a row of scores, that was never written: np.ndarray
\* leaves the memory as it finds it.  The state keeps the marker; what a read
\* of such a cell or row returns is chosen when it is read
Uninit == -1
UninitRow == <<>>

nVocab == Cardinality(Vocab)

---------------------------------------------------------------------------
(* LlamaModel.evaluate *)

\* Context state plus the record of one evaluate call:
\*   nCtx    self.nCtx; the arrays keep the size _init gave them
\*   calls   the llama_eval calls made, in order
\*   raised  the exception that ended the call, "none" when it returned
CtxOf(ids, sc, past, n) ==
    [inputIds |-> ids, scores |-> sc, pastTokens |-> past, nCtx |-> n,
     calls |-> <<>>, raised |-> "none"]

\* cells lo..hi-1 (0-based) that a[lo:hi] covers in an array of size cells
SliceCells(size, lo, hi) == {i \in 0..(size - 1) : lo <= i /\ i < hi}

\* mutant of AssignOk: an assignment that never raises (a list's slice
\* assignment instead of an array's)
AssignNeverRaises(n, m) == TRUE

\* numpy assigns n values to m cells when n = m, or when n = 1 (the value is
\* broadcast, to no cell at all when m = 0); otherwise it raises ValueError
AssignOk(n, m) == n = m \/ n = 1

\* mutant of EvalChunk: the chunk recorded ahead of the status check
EvalChunkRecordsFirst(st, nBatch, ok, logitsAll) ==
    LET nTokens == Len(nBatch)
        p       == st.pastTokens
        nPast   == Min(st.nCtx - nTokens, Len(Slice(st.inputIds, 0, p)))
        called  == [st EXCEPT !.calls = Append(@, [tokens |-> nBatch, n_past |-> nPast])]
        idCells == SliceCells(Len(st.inputIds), p, p + nTokens)
        newIds  == [i \in 1..Len(st.inputIds) |->
                      IF (i - 1) \in idCells
                      THEN (IF nTokens = 1 THEN nBatch[1] ELSE nBatch[i - p])
                      ELSE st.inputIds[i]]
    IN  IF ~AssignOk(nTokens, Cardinality(idCells))
        THEN [called EXCEPT !.raised = "ValueError"]
        ELSE [called EXCEPT !.inputIds = newIds, !.pastTokens = p + nTokens,
                            !.raised = IF ok THEN "none" ELSE "RuntimeError"]

\* one chunk: llama_eval, the status check, then the three assignments
EvalChunk(st, nBatch, ok, logitsAll) ==
    LET nTokens == Len(nBatch)
        p       == st.pastTokens
        nPast   == Min(st.nCtx - nTokens, Len(Slice(st.inputIds, 0, p)))
        called  == [st EXCEPT !.calls = Append(@, [tokens |-> nBatch, n_past |-> nPast])]
        idCells == SliceCells(Len(st.inputIds), p, p + nTokens)
        rows    == IF logitsAll THEN nTokens ELSE 1
        offset  == IF logitsAll THEN 0 ELSE nTokens - 1
        rowCells == SliceCells(Len(st.scores), p + offset, p + nTokens)
        newIds  == [i \in 1..Len(st.inputIds) |->
                      IF (i - 1) \in idCells
                      THEN (IF nTokens = 1 THEN nBatch[1] ELSE nBatch[i - p])
                      ELSE st.inputIds[i]]
        newScores == [i \in 1..Len(st.scores) |->
                      IF (i - 1) \in rowCells
                      THEN LlamaGetLogits(nBatch[i - p], nPast + (i - p))
                      ELSE st.scores[i]]
    IN  IF ~ok THEN [called EXCEPT !.raised = "RuntimeError"]
        ELSE IF ~AssignOk(nTokens, Cardinality(idCells))
             THEN [called EXCEPT !.raised = "ValueError"]
        ELSE IF ~AssignOk(rows * nVocab, Cardinality(rowCells) * nVocab)
             THEN [called EXCEPT !.inputIds = newIds, !.raised = "ValueError"]
        ELSE [called EXCEPT !.inputIds = newIds, !.scores = newScores,
                            !.pastTokens = p + nTokens]

\* the loop over range(0, len(tokens), batch), from 0-based index i;
\* failAt is the number of the chunk for which llama_eval returns non-zero
\* (0: for none)
RECURSIVE EvalLoop(_, _, _, _, _, _)
EvalLoop(st, toks, batch, i, failAt, logitsAll) ==
    IF i >= Len(toks) THEN st
    ELSE LET nBatch == Slice(toks, i, Min(Len(toks), i + batch))
             next   == EvalChunk(st, nBatch, failAt # (i \div batch) + 1, logitsAll)
         IN IF next.raised # "none" THEN next
            ELSE EvalLoop(next, toks, batch, i + batch, failAt, logitsAll)

\* mutant of evaluate: the batch size ignored, the whole list in one chunk
evaluateInOneChunk(st, toks, batch, failAt, logitsAll) ==
    IF batch > 0
    THEN EvalLoop([st EXCEPT !.calls = <<>>, !.raised = "none"], toks,
                  Max(batch, Len(toks)), 0, failAt, logitsAll)
    ELSE [st EXCEPT !.calls = <<>>, !.raised = "none"]

evaluate(st, toks, batch, failAt, logitsAll) ==
    IF batch > 0
    THEN EvalLoop([st EXCEPT !.calls = <<>>, !.raised = "none"], toks, batch, 0,
                  failAt, logitsAll)
    ELSE [st EXCEPT !.calls = <<>>, !.raised = "none"]

\* number of chunks evaluate cuts toks into
NChunks(toks, batch) == IF batch > 0 THEN (Len(toks) + batch - 1) \div batch ELSE 0

---------------------------------------------------------------------------
(* LlamaModel.sampleTokenWithModel *)

Zeros(n) == [i \in 1..n |-> 0]

\* self.inputIds[: self.pastTokens]
History(st) == Slice(st.inputIds, 0, st.pastTokens)

\* s[-n:] of Python for n >= 0 (s[-0:] is all of s)
LastN(s, n) == IF n = 0 \/ n >= Len(s) THEN s ELSE SubSeq(s, Len(s) - n + 1, Len(s))

\* self.nCtx is parameters.nCtx, at construction and after every update
lastNTokensSize(params) ==
    IF params.n_keep # -1 THEN params.n_keep ELSE params.nCtx

\* the list handed to the ctypes array constructor
lastNTokensList(st, params) ==
    Zeros(Max(0, params.n_keep - Len(History(st))))
        \o LastN(History(st), lastNTokensSize(params))

\* (llama_token * size)(*list): more initializers than cells is an IndexError,
\* fewer leave the cells after them 0
lastNTokensData(st, params) ==
    LET list == lastNTokensList(st, params)
    IN  list \o Zeros(lastNTokensSize(params) - Len(list))

\* the row self.scores[: self.pastTokens, :][-1, :] is a view of
LatestRow(st) == Min(st.pastTokens, Len(st.scores))

\* mutant of ApplyBias: the bias added to the logit
ApplyBiasAdditive(row, bias) ==
    [v \in DOMAIN row |-> IF v \in DOMAIN bias THEN row[v] + bias[v] ELSE row[v]]

\* the loop over logit_bias.items(): it writes through the view
ApplyBias(row, bias) ==
    [v \in DOMAIN row |-> IF v \in DOMAIN bias THEN row[v] * bias[v] ELSE row[v]]

Count(s, v) == Cardinality({i \in 1..Len(s) : s[i] = v})

\* llama_sample_repetition_penalties over the window
RepetitionPenalties(logits, window, params) ==
    [v \in DOMAIN logits |->
        LET c == Count(window, v)
        IN  IF c = 0 THEN logits[v]
            ELSE (IF logits[v] <= 0 THEN logits[v] * params.repeat_penalty
                                    ELSE logits[v] \div params.repeat_penalty)
                 - c * params.frequency_penalty - params.presence_penalty]

\* llama_sample_token_greedy: the first candidate that has the largest logit
Argmax(logits) ==
    CHOOSE v \in DOMAIN logits :
        /\ \A w \in DOMAIN logits : logits[w] <= logits[v]
        /\ \A w \in DOMAIN logits : logits[w] = logits[v] => Rank(v) <= Rank(w)

\* mutant of Strategy: the mirostat tests ahead of the temperature test
StrategyMirostatFirst(params) ==
    IF params.mirostat = 1 THEN "mirostat"
    ELSE IF params.mirostat = 2 THEN "mirostat_v2"
    ELSE IF params.temperature = 0 THEN "greedy"
    ELSE "nucleus"

\* the branch of the if / elif chain
Strategy(params) ==
    IF params.temperature = 0 THEN "greedy"
    ELSE IF params.mirostat = 1 THEN "mirostat"
    ELSE IF params.mirostat = 2 THEN "mirostat_v2"
    ELSE "nucleus"

\* the llama_sample_* calls of a branch, in order
StrategyCalls(strategy) ==
    CASE strategy = "greedy" -> <<"token_greedy">>
      [] strategy = "mirostat" -> <<"temperature", "token_mirostat">>
      [] strategy = "mirostat_v2" -> <<"temperature", "token_mirostat_v2">>
      [] OTHER -> <<"top_k", "tail_free", "typical", "top_p", "temperature", "token">>

\* the surprise llama_sample_token_mirostat(_v2) observes for the token it
\* picked, -log2 of its probability: a fixed table over the candidates, 1 for
\* a most likely token and 2 more for every unit of logit below it
Surprise(cands, id) == 2 * (cands[Argmax(cands)] - cands[id]) + 1

\* the update both mirostat samplers make through the mu pointer:
\* *mu = *mu - eta * (observed_surprise - tau)
MirostatUpdate(mu, cands, id, params) ==
    mu - params.mirostat_eta * (Surprise(cands, id) - params.mirostat_tau)

\* What one call does.  row is the content of the latest logits row (any
\* content when the row was never written), draw the token a random draw
\* yields.  The bias loop writes the row through the view; without a bias
\* nothing is written, and a row that was never written stays so.  Result: the token, the scores left behind, the candidate logits
\* handed to the penalties, the window, the engine calls, the mu handed to the
\* mirostat sampler and the mu it left in the local mirostatMU (-1: none), the
\* exception.
sampleTokenWithModel(st, params, row, draw) ==
    LET none == [id |-> -1, scores |-> st.scores, fed |-> <<>>, window |-> <<>>,
                 calls |-> <<>>, mu |-> -1, muOut |-> -1, raised |-> "none"]
    IN  IF Len(lastNTokensList(st, params)) > lastNTokensSize(params)
        THEN [none EXCEPT !.raised = "IndexError"]
        ELSE IF LatestRow(st) = 0
        THEN [none EXCEPT !.raised = "IndexError"]
        ELSE LET biased   == ApplyBias(row, params.logit_bias)
                 window   == lastNTokensData(st, params)
                 cands    == RepetitionPenalties(biased, window, params)
                 strategy == Strategy(params)
                 id       == IF strategy = "greedy" THEN Argmax(cands) ELSE draw
                 mirostatMU == 2 * params.mirostat_tau
             IN  [id |-> id,
                  scores |-> IF DOMAIN params.logit_bias = {} THEN st.scores
                             ELSE [st.scores EXCEPT ![LatestRow(st)] = biased],
                  fed |-> biased,
                  window |-> window,
                  calls |-> <<"repetition_penalties">> \o StrategyCalls(strategy),
                  mu |-> IF strategy \in {"mirostat", "mirostat_v2"}
                         THEN mirostatMU ELSE -1,
                  muOut |-> IF strategy \in {"mirostat", "mirostat_v2"}
                            THEN MirostatUpdate(mirostatMU, cands, id, params)
                            ELSE -1,
                  raised |-> "none"]

\* contents a never-written logits row may hold, one of each kind: zeros,
\* a flat row, a row an earlier evaluation left in that memory, a row whose
\* largest entry is at any one token
GarbageRows ==
    {[v \in Vocab |-> 0], [v \in Vocab |-> 1]}
        \cup {LlamaGetLogits(tok, pos) : tok \in Vocab, pos \in 0..nCtx}
        \cup {[v \in Vocab |-> IF v = w THEN 2 ELSE 0] : w \in Vocab}

\* values a never-written cell of inputIds may hold: any token id, or an
\* integer that is no token id (for which Uninit stands)
GarbageIds == Vocab \cup {Uninit}

\* what self.inputIds[: self.pastTokens] reads: the written cells as they are,
\* each never-written cell of that range with any value
InputIdsContents(st) ==
    LET unwritten == {i \in 1..Min(st.pastTokens, Len(st.inputIds)) :
                        st.inputIds[i] = Uninit}
    IN  {[i \in 1..Len(st.inputIds) |->
            IF i \in unwritten THEN f[i] ELSE st.inputIds[i]] :
         f \in [unwritten -> GarbageIds]}

RowContents(st) ==
    IF LatestRow(st) = 0 THEN {UninitRow}
    ELSE IF st.scores[LatestRow(st)] = UninitRow THEN GarbageRows
    ELSE {st.scores[LatestRow(st)]}

---------------------------------------------------------------------------
(* LlamaModel.generate: the body of the loop over generateTokens *)

\* the inner loop over Patterns for one byte at distance k from the end
RECURSIVE ScanPatterns(_, _, _, _)
ScanPatterns(fix, k, char, j) ==
    IF j > Len(Patterns) THEN fix
    ELSE LET number  == Patterns[j][1]
             pattern == Patterns[j][2]
         IN  ScanPatterns(IF number > k /\ BitAnd(pattern, char) = pattern
                          THEN number - k ELSE fix,
                          k, char, j + 1)

\* the loop over enumerate(tempBytes[-3:]); i is the 1-based index, so k is
\* 3 - (i - 1)
RECURSIVE ScanTail(_, _, _)
ScanTail(fix, tail, i) ==
    IF i > Len(tail) THEN fix
    ELSE ScanTail(ScanPatterns(fix, 3 - (i - 1), tail[i], 1), tail, i + 1)

\* incompleteFix after the scan of the last three bytes of buf
ScanIncomplete(fix, buf) == ScanTail(fix, LastN(buf, 3), 1)

\* [a for a in encodedAntiPrompts if a in tempBytes]
RECURSIVE MatchingAntiPrompts(_, _)
MatchingAntiPrompts(antis, buf) ==
    IF antis = <<>> THEN <<>>
    ELSE (IF Contains(buf, Head(antis)) THEN <<Head(antis)>> ELSE <<>>)
         \o MatchingAntiPrompts(Tail(antis), buf)

\* the prefix the anti-prompt branch keeps
TruncateAtAntiPrompt(buf, matching) == SubSeq(buf, 1, IndexOf(buf, matching[1]))

\* mutant of IsStopToken: the reserved stop tokens forgotten
IsStopTokenEosOnly(tok) == tok = EOSToken

\* the test that opens the loop body
IsStopToken(tok) == tok = EOSToken \/ tok \in Range(exitTokens)

\* the check of the length cap
OverLength(toks, params) == Len(toks) > params.n_predict

\* mutant of LoopBody: the length cap tested ahead of the anti-prompts
LoopBodyCapFirst(loc, tok, params) ==
    IF IsStopToken(tok)
    THEN [loc EXCEPT !.finalString =
                        IF StrLen(loc.finalString) + 1 # Len(loc.tokens)
                        THEN tokensToString(loc.tokens) ELSE loc.finalString,
                     !.path = "stop"]
    ELSE LET toks  == Append(loc.tokens, tok)
             bytes == loc.tempBytes \o tokenToByte(toks[Len(toks)])
             fix   == ScanIncomplete(loc.incompleteFix, bytes)
             acc   == [loc EXCEPT !.tokens = toks, !.tempBytes = bytes,
                                  !.incompleteFix = fix]
             anti  == MatchingAntiPrompts(params.antiPrompt, bytes)
         IN  IF fix > 0
             THEN [acc EXCEPT !.incompleteFix = fix - 1, !.path = "suppressed"]
             ELSE IF OverLength(toks, params)
             THEN [acc EXCEPT !.finalString = tokensToString(toks),
                              !.path = "length"]
             ELSE IF Len(anti) > 0
             THEN [acc EXCEPT !.tempBytes = TruncateAtAntiPrompt(bytes, anti),
                              !.path = "anti"]
             ELSE [acc EXCEPT !.path = "continue"]

\* One pass through the loop body for the yielded token tok.  loc holds the
\* locals tokens, tempBytes, finalString, incompleteFix; the result adds
\* path, the way the pass left the body:
\*   "stop" "anti" "length"     the three breaks
\*   "suppressed"               the continue of the incomplete-byte guard
\*   "continue"                 the end of the body
LoopBody(loc, tok, params) ==
    IF IsStopToken(tok)
    THEN [loc EXCEPT !.finalString =
                        IF StrLen(loc.finalString) + 1 # Len(loc.tokens)
                        THEN tokensToString(loc.tokens) ELSE loc.finalString,
                     !.path = "stop"]
    ELSE LET toks  == Append(loc.tokens, tok)
             bytes == loc.tempBytes \o tokenToByte(toks[Len(toks)])
             fix   == ScanIncomplete(loc.incompleteFix, bytes)
             acc   == [loc EXCEPT !.tokens = toks, !.tempBytes = bytes,
                                  !.incompleteFix = fix]
             anti  == MatchingAntiPrompts(params.antiPrompt, bytes)
         IN  IF fix > 0
             THEN [acc EXCEPT !.incompleteFix = fix - 1, !.path = "suppressed"]
             ELSE IF Len(anti) > 0
             THEN [acc EXCEPT !.tempBytes = TruncateAtAntiPrompt(bytes, anti),
                              !.path = "anti"]
             ELSE IF OverLength(toks, params)
             THEN [acc EXCEPT !.finalString = tokensToString(toks),
                              !.path = "length"]
             ELSE [acc EXCEPT !.path = "continue"]

\* the return statement
ReturnValue(loc) ==
    IF loc.finalString # <<>> THEN loc.finalString ELSE Decode(loc.tempBytes)

\* the prompt check that opens generate
PromptTooLong(prompt, params) == Len(prompt) >= params.nCtx

---------------------------------------------------------------------------
(* LlamaLlavaModel: evalEmbedding and response *)

\* the stop tokens of response's loop, next to EOSToken
LlavaExitTokens == <<2, 32002, 32001>>

\* n_batch of llava_eval_image_embed
EmbedBatch == 32

\* embedImage up to the fetch: without a URL and without an image kept from an
\* earlier call it raises through warnAndExit; without a URL otherwise,
\* getImage hands None to urlopen, which raises AttributeError before it
\* opens anything; with a URL it waits for the fetch
embedImage(imageurl, img) ==
    IF imageurl = "None" /\ img = "None" THEN "RuntimeError"
    ELSE IF imageurl = "None" THEN "AttributeError"
    ELSE "fetch"

\* positions llava_eval_image_embed may have evaluated when it returns, for
\* an image of n positions: it goes through them in batches of EmbedBatch and
\* stops at the first batch the engine refuses
EmbedProgress(n) == {n} \cup {k * EmbedBatch : k \in 0..((n - 1) \div EmbedBatch)}

\* evalEmbedding: llava_eval_image_embed advances n_past by the done positions
\* it evaluated, and pastTokens takes that value whatever the call returned;
\* inputIds and scores are not written
evalEmbedding(st, done) == [st EXCEPT !.pastTokens = @ + done]

\* response from the image to the loop: the image is evaluated, then the user
\* prompt; fail2 is the chunk of that evaluate call for which llama_eval
\* returns non-zero (0: none).  The result carries the pastTokens the evaluate
\* call started from.
LlavaAfterImage(st, prompt, batch, done, fail2, logitsAll) ==
    LET r2 == evalEmbedding(st, done)
        r3 == evaluate(r2, prompt, batch, fail2, logitsAll)
    IN  [ctx |-> r3, past0 |-> r2.pastTokens]

\* one pass through the body of response's loop for the yielded token tok;
\* loc.tokens is generatedTokens
LlavaLoopBody(loc, tok, params) ==
    IF tok = EOSToken \/ tok \in Range(LlavaExitTokens)
    THEN [loc EXCEPT !.path = "stop"]
    ELSE LET toks  == Append(loc.tokens, tok)
             bytes == loc.tempBytes \o tokenToByte(toks[Len(toks)])
             fix   == ScanIncomplete(loc.incompleteFix, bytes)
             acc   == [loc EXCEPT !.tokens = toks, !.tempBytes = bytes,
                                  !.incompleteFix = fix]
         IN  IF fix > 0
             THEN [acc EXCEPT !.incompleteFix = fix - 1, !.path = "suppressed"]
             ELSE IF OverLength(toks, params)
             THEN [acc EXCEPT !.path = "length"]
             ELSE [acc EXCEPT !.path = "continue"]

\* finalString = tokensToString(generatedTokens) and the return statement
LlavaReturnValue(loc) ==
    IF tokensToString(loc.tokens) # <<>> THEN tokensToString(loc.tokens)
    ELSE Decode(loc.tempBytes)

---------------------------------------------------------------------------
(* State *)

VARIABLES
    parameters,     \* self.parameters, the LLMConfig; its nCtx is self.nCtx
    image,          \* LlamaLlavaModel.image: "None" until an image was fetched
    inputIds,       \* self.inputIds: as many cells as _init made
    scores,         \* self.scores: as many rows as _init made
    pastTokens,     \* self.pastTokens
    op,             \* the method that ran last
    raised,         \* the exception it ended with, "none" when it returned
    lastEval,       \* the last evaluate call: its arguments, pastTokens before it
    evalCalls,      \* the llama_eval calls it made
    sampled,        \* what the last sampleTokenWithModel call did
    pc,             \* where generate stands: idle, eval, sample, decode, done
    nCalls,         \* generate calls made so far
    promptTokens,   \* tokenizedPromptTokens
    genTokens,      \* the list generateTokens evaluates next
    t,              \* the token generateTokens yielded
    tokensON,       \* what the caller sent when it resumed the generator
    tokens,         \* generate's locals
    tempBytes,
    finalString,
    incompleteFix,
    path,           \* the way the last pass left the loop body
    result          \* generate's return value

ctxVars == <<inputIds, scores, pastTokens>>
genVars == <<pc, nCalls, promptTokens, genTokens, t, tokensON, tokens, tempBytes,
             finalString, incompleteFix, path, result>>
vars == <<parameters, image, inputIds, scores, pastTokens, op, raised, lastEval,
          evalCalls, sampled, pc, nCalls, promptTokens, genTokens, t, tokensON,
          tokens, tempBytes, finalString, incompleteFix, path, result>>

Ctx == CtxOf(inputIds, scores, pastTokens, parameters.nCtx)
Loc == [tokens |-> tokens, tempBytes |-> tempBytes, finalString |-> finalString,
        incompleteFix |-> incompleteFix, path |-> path]

\* generate has not returned a value
NoResult == <<-1>>
NoSample == [id |-> -1, scores |-> <<>>, fed |-> <<>>, window |-> <<>>,
             calls |-> <<>>, mu |-> -1, muOut |-> -1, raised |-> "none"]
NoEval == [ids |-> <<>>, batch |-> 0, past0 |-> 0]

---------------------------------------------------------------------------
(* Configurations *)

Params(anti, npredict, temp, miro, all, keep, bias, freq, pres) ==
    [antiPrompt |-> anti, n_predict |-> npredict, temperature |-> temp,
     mirostat |-> miro, mirostat_tau |-> 5, mirostat_eta |-> 1,
     logitsAll |-> all, n_keep |-> keep, logit_bias |-> bias,
     repeat_penalty |-> 1, frequency_penalty |-> freq, presence_penalty |-> pres,
     nCtx |-> nCtx]

NoBias == <<>>
\* anti-prompts, UTF-8 encoded: none, "A", "B" before "A"
AntiPromptLists == {<<>>, <<<<65>>>>, <<<<66>>, <<65>>>>}

\* the configurations generation is followed under
GenConfigs ==
    {Params(anti, n, temp, 0, FALSE, -1, NoBias, 0, 0) :
        anti \in AntiPromptLists, n \in 0..MaxPredict, temp \in {0, 1}}

\* the prompts a caller loads, tokenized: short ones and one of nCtx tokens
Prompts == {<<0>>, <<1, 0>>, Zeros(nCtx)}

\* the token lists an outside caller evaluates
EvalInputs == {<<>>, <<0>>, <<1, 0>>, <<0, 0, 1>>}

---------------------------------------------------------------------------
(* Init: the state _init leaves *)

InitWith(configs) ==
    /\ parameters \in configs
    /\ image = "None"
    /\ inputIds = [i \in 1..parameters.nCtx |-> Uninit]
    /\ scores = [i \in 1..parameters.nCtx |-> UninitRow]
    /\ pastTokens = 0
    /\ op = "init"
    /\ raised = "none"
    /\ lastEval = NoEval
    /\ evalCalls = <<>>
    /\ sampled = NoSample
    /\ pc = "idle"
    /\ nCalls = 0
    /\ promptTokens = <<>>
    /\ genTokens = <<>>
    /\ t = -1
    /\ tokensON = <<>>
    /\ tokens = <<>>
    /\ tempBytes = <<>>
    /\ finalString = <<>>
    /\ incompleteFix = 0
    /\ path = "none"
    /\ result = NoResult

---------------------------------------------------------------------------
(* Operations *)

\* generate's frame is gone once it has returned: what an outside call finds
GenIdle ==
    /\ pc' = "idle"
    /\ promptTokens' = <<>>
    /\ genTokens' = <<>>
    /\ t' = -1
    /\ tokensON' = <<>>
    /\ tokens' = <<>>
    /\ tempBytes' = <<>>
    /\ finalString' = <<>>
    /\ incompleteFix' = 0
    /\ path' = "none"
    /\ result' = NoResult
    /\ nCalls' = nCalls

SetCtx(r) ==
    /\ inputIds' = r.inputIds
    /\ scores' = r.scores
    /\ pastTokens' = r.pastTokens

\* evaluate called from outside generate (as LlamaLlavaModel.response does)
Evaluate(ids, batch) ==
    /\ pc \in {"idle", "done"}
    /\ \E failAt \in 0..NChunks(ids, batch) :
        LET r == evaluate(Ctx, ids, batch, failAt, parameters.logitsAll)
        IN  /\ SetCtx(r)
            /\ evalCalls' = r.calls
            /\ raised' = r.raised
    /\ op' = "evaluate"
    /\ lastEval' = [ids |-> ids, batch |-> batch, past0 |-> pastTokens]
    /\ sampled' = NoSample
    /\ GenIdle
    /\ UNCHANGED <<parameters, image>>

\* reset(): _init again
Reset ==
    /\ pc \in {"idle", "done"}
    /\ inputIds' = [i \in 1..parameters.nCtx |-> Uninit]
    /\ scores' = [i \in 1..parameters.nCtx |-> UninitRow]
    /\ pastTokens' = 0
    /\ op' = "reset"
    /\ raised' = "none"
    /\ lastEval' = NoEval
    /\ evalCalls' = <<>>
    /\ sampled' = NoSample
    /\ GenIdle
    /\ UNCHANGED <<parameters, image>>

\* update(newParameters): the configuration and self.nCtx are replaced; the
\* arrays, pastTokens and the engine's context stay as they are
Update(newParameters) ==
    /\ pc \in {"idle", "done"}
    /\ parameters' = newParameters
    /\ op' = "update"
    /\ raised' = "none"
    /\ lastEval' = NoEval
    /\ evalCalls' = <<>>
    /\ sampled' = NoSample
    /\ GenIdle
    /\ UNCHANGED <<image, ctxVars>>

\* sampleTokenWithModel called on its own
Sample(draws) ==
    /\ pc \in {"idle", "done"}
    /\ \E ids \in InputIdsContents(Ctx), row \in RowContents(Ctx), draw \in draws :
        /\ \A v \in DOMAIN row : row[v] <= MaxLogit
        /\ LET r == sampleTokenWithModel([Ctx EXCEPT !.inputIds = ids],
                                         parameters, row, draw)
           IN  /\ sampled' = r
               /\ scores' = r.scores
               /\ raised' = r.raised
    /\ op' = "sample"
    /\ lastEval' = NoEval
    /\ evalCalls' = <<>>
    /\ GenIdle
    /\ UNCHANGED <<parameters, image, inputIds, pastTokens>>

\* generate, up to the first step of the generator
Generate(prompt) ==
    /\ pc \in {"idle", "done"}
    /\ nCalls < MaxCalls
    /\ nCalls' = nCalls + 1
    /\ op' = "generate"
    /\ raised' = "none"
    /\ promptTokens' = prompt
    /\ t' = -1
    /\ tokensON' = <<>>
    /\ tokens' = <<>>
    /\ tempBytes' = <<>>
    /\ finalString' = <<>>
    /\ incompleteFix' = 0
    /\ IF PromptTooLong(prompt, parameters)
       THEN /\ pc' = "done"
            /\ path' = "tooLong"
            /\ result' = <<>>
            /\ genTokens' = <<>>
       ELSE /\ pc' = "eval"
            /\ path' = "none"
            /\ result' = NoResult
            /\ genTokens' = prompt
    /\ lastEval' = NoEval
    /\ evalCalls' = <<>>
    /\ sampled' = NoSample
    /\ UNCHANGED <<parameters, image, ctxVars>>

\* generateTokens: self.evaluate(tokens=tokens, batch=64)
GenEvaluate ==
    /\ pc = "eval"
    /\ \E failAt \in 0..NChunks(genTokens, GenBatch) :
        LET r == evaluate(Ctx, genTokens, GenBatch, failAt, parameters.logitsAll)
        IN  /\ SetCtx(r)
            /\ evalCalls' = r.calls
            /\ raised' = r.raised
            /\ IF r.raised = "none"
               THEN /\ pc' = "sample"
                    /\ path' = path
               ELSE /\ pc' = "done"
                    /\ path' = "raise"
    /\ op' = "evaluate"
    /\ lastEval' = [ids |-> genTokens, batch |-> GenBatch, past0 |-> pastTokens]
    /\ UNCHANGED <<parameters, image, sampled, nCalls, promptTokens, genTokens, t, tokensON,
                   tokens, tempBytes, finalString, incompleteFix, result>>

\* generateTokens: newToken = self.sampleTokenWithModel(); yield newToken
GenSample(draws) ==
    /\ pc = "sample"
    /\ \E ids \in InputIdsContents(Ctx), row \in RowContents(Ctx), draw \in draws :
        LET r == sampleTokenWithModel([Ctx EXCEPT !.inputIds = ids],
                                      parameters, row, draw)
        IN  /\ sampled' = r
            /\ scores' = r.scores
            /\ raised' = r.raised
            /\ IF r.raised = "none"
               THEN /\ pc' = "decode"
                    /\ t' = r.id
                    /\ path' = path
               ELSE /\ pc' = "done"
                    /\ t' = t
                    /\ path' = "raise"
    /\ op' = "sample"
    /\ UNCHANGED <<parameters, image, inputIds, pastTokens, lastEval, evalCalls, nCalls,
                   promptTokens, genTokens, tokensON, tokens, tempBytes, finalString,
                   incompleteFix, result>>

\* mutant of GenDecode: the generator resumed at the sampling call, the
\* evaluation of the token it yielded left out
GenDecodeSkipsEvaluate ==
    /\ pc = "decode"
    /\ LET r == LoopBody(Loc, t, parameters)
       IN  /\ tokens' = r.tokens
           /\ tempBytes' = r.tempBytes
           /\ finalString' = r.finalString
           /\ incompleteFix' = r.incompleteFix
           /\ path' = r.path
           /\ IF r.path \in {"stop", "anti", "length"}
              THEN /\ pc' = "done"
                   /\ result' = ReturnValue(r)
                   /\ genTokens' = genTokens
              ELSE /\ pc' = "sample"
                   /\ result' = result
                   /\ genTokens' = <<t>>
    /\ op' = "generate"
    /\ tokensON' = <<>>
    /\ UNCHANGED <<parameters, image, ctxVars, raised, lastEval, evalCalls, sampled, nCalls,
                   promptTokens, t>>

\* LlamaLlavaModel.response, up to the fetch of the image: the system prompt
\* is evaluated, then embedImage is entered.  The call ends here when the
\* evaluation or embedImage raises; otherwise it waits in urlopen
LlavaResponse(sys, prompt, batch, imageurl) ==
    /\ pc \in {"idle", "done"}
    /\ nCalls < MaxCalls
    /\ nCalls' = nCalls + 1
    /\ \E fail1 \in 0..NChunks(sys, batch) :
        LET r == evaluate(Ctx, sys, batch, fail1, parameters.logitsAll)
            e == embedImage(imageurl, image)
        IN  /\ SetCtx(r)
            /\ evalCalls' = r.calls
            /\ IF r.raised # "none"
               THEN /\ op' = "evaluate"
                    /\ raised' = r.raised
                    /\ pc' = "done"
                    /\ path' = "raise"
               ELSE IF e # "fetch"
               THEN /\ op' = "embedImage"
                    /\ raised' = e
                    /\ pc' = "done"
                    /\ path' = "raise"
               ELSE /\ op' = "evaluate"
                    /\ raised' = "none"
                    /\ pc' = "fetch"
                    /\ path' = "none"
    /\ lastEval' = [ids |-> sys, batch |-> batch, past0 |-> pastTokens]
    /\ promptTokens' = prompt
    /\ genTokens' = <<>>
    /\ t' = -1
    /\ tokensON' = <<>>
    /\ tokens' = <<>>
    /\ tempBytes' = <<>>
    /\ finalString' = <<>>
    /\ incompleteFix' = 0
    /\ result' = NoResult
    /\ sampled' = NoSample
    /\ UNCHANGED <<parameters, image>>

\* response, from the return of urlopen to the first step of the generator it
\* creates on an empty list.  A fetch that fails raises OSError out of
\* response; otherwise the image is kept, embedded and evaluated (n is the
\* number of its positions), then the user prompt is evaluated
LlavaFetch(fetched, n) ==
    /\ pc = "fetch"
    /\ IF ~fetched
       THEN /\ op' = "embedImage"
            /\ raised' = "OSError"
            /\ pc' = "done"
            /\ path' = "raise"
            /\ UNCHANGED <<image, ctxVars, lastEval, evalCalls>>
       ELSE /\ image' = "bytes"
            /\ op' = "evaluate"
            /\ \E done \in EmbedProgress(n), fail2 \in 0..NChunks(promptTokens, lastEval.batch) :
                LET r == LlavaAfterImage(Ctx, promptTokens, lastEval.batch, done,
                                         fail2, parameters.logitsAll)
                IN  /\ SetCtx(r.ctx)
                    /\ evalCalls' = r.ctx.calls
                    /\ raised' = r.ctx.raised
                    /\ lastEval' = [ids |-> promptTokens, batch |-> lastEval.batch,
                                    past0 |-> r.past0]
                    /\ IF r.ctx.raised = "none"
                       THEN /\ pc' = "eval"
                            /\ path' = "none"
                       ELSE /\ pc' = "done"
                            /\ path' = "raise"
    /\ UNCHANGED <<parameters, sampled, nCalls, promptTokens, genTokens, t, tokensON,
                   tokens, tempBytes, finalString, incompleteFix, result>>

\* response: one pass of its loop body; on a break, the return; otherwise the
\* generator is resumed with nothing sent
LlavaDecode ==
    /\ pc = "decode"
    /\ LET r == LlavaLoopBody(Loc, t, parameters)
       IN  /\ tokens' = r.tokens
           /\ tempBytes' = r.tempBytes
           /\ incompleteFix' = r.incompleteFix
           /\ path' = r.path
           /\ IF r.path \in {"stop", "length"}
              THEN /\ pc' = "done"
                   /\ finalString' = tokensToString(r.tokens)
                   /\ result' = LlavaReturnValue(r)
                   /\ genTokens' = genTokens
              ELSE /\ pc' = "eval"
                   /\ finalString' = finalString
                   /\ result' = result
                   /\ genTokens' = <<t>>
    /\ op' = "response"
    /\ tokensON' = <<>>
    /\ UNCHANGED <<parameters, image, ctxVars, raised, lastEval, evalCalls, sampled, nCalls,
                   promptTokens, t>>

\* generateTokens driven by a caller of its own: the generator is created on
\* toks and stepped for the first time
GenTokensStart(toks) ==
    /\ pc \in {"idle", "done", "decode"}
    /\ nCalls < MaxCalls
    /\ nCalls' = nCalls + 1
    /\ op' = "generateTokens"
    /\ raised' = "none"
    /\ pc' = "eval"
    /\ genTokens' = toks
    /\ t' = -1
    /\ tokensON' = <<>>
    /\ promptTokens' = <<>>
    /\ tokens' = <<>>
    /\ tempBytes' = <<>>
    /\ finalString' = <<>>
    /\ incompleteFix' = 0
    /\ path' = "none"
    /\ result' = NoResult
    /\ lastEval' = NoEval
    /\ evalCalls' = <<>>
    /\ sampled' = NoSample
    /\ UNCHANGED <<parameters, image, ctxVars>>

\* mutant of GenSend: the sent tokens take the place of the yielded token
GenSendReplaces(sent) ==
    /\ pc = "decode"
    /\ tokensON' = sent
    /\ genTokens' = IF sent # <<>> THEN sent ELSE <<t>>
    /\ pc' = "eval"
    /\ op' = "send"
    /\ UNCHANGED <<parameters, image, ctxVars, raised, lastEval, evalCalls, sampled, nCalls,
                   promptTokens, t, tokens, tempBytes, finalString, incompleteFix,
                   path, result>>

\* the caller resumes the generator with gen.send(sent): tokens = [newToken],
\* extended by what was sent unless that is empty
GenSend(sent) ==
    /\ pc = "decode"
    /\ tokensON' = sent
    /\ genTokens' = IF sent # <<>> THEN <<t>> \o sent ELSE <<t>>
    /\ pc' = "eval"
    /\ op' = "send"
    /\ UNCHANGED <<parameters, image, ctxVars, raised, lastEval, evalCalls, sampled, nCalls,
                   promptTokens, t, tokens, tempBytes, finalString, incompleteFix,
                   path, result>>

\* mutant of GenDecode: the generator goes on with the list it evaluated
\* before, tokens = [newToken] left out
GenDecodeKeepsList ==
    /\ pc = "decode"
    /\ LET r == LoopBody(Loc, t, parameters)
       IN  /\ tokens' = r.tokens
           /\ tempBytes' = r.tempBytes
           /\ finalString' = r.finalString
           /\ incompleteFix' = r.incompleteFix
           /\ path' = r.path
           /\ IF r.path \in {"stop", "anti", "length"}
              THEN /\ pc' = "done"
                   /\ result' = ReturnValue(r)
                   /\ genTokens' = genTokens
              ELSE /\ pc' = "eval"
                   /\ result' = result
                   /\ genTokens' = genTokens
    /\ op' = "generate"
    /\ tokensON' = <<>>
    /\ UNCHANGED <<parameters, image, ctxVars, raised, lastEval, evalCalls, sampled, nCalls,
                   promptTokens, t>>

\* generate: one pass of the loop body; on a break, the return; otherwise the
\* generator is resumed with nothing sent, so it goes on with [newToken]
GenDecode ==
    /\ pc = "decode"
    /\ LET r == LoopBody(Loc, t, parameters)
       IN  /\ tokens' = r.tokens
           /\ tempBytes' = r.tempBytes
           /\ finalString' = r.finalString
           /\ incompleteFix' = r.incompleteFix
           /\ path' = r.path
           /\ IF r.path \in {"stop", "anti", "length"}
              THEN /\ pc' = "done"
                   /\ result' = ReturnValue(r)
                   /\ genTokens' = genTokens
              ELSE /\ pc' = "eval"
                   /\ result' = result
                   /\ genTokens' = <<t>>
    /\ op' = "generate"
    /\ tokensON' = <<>>
    /\ UNCHANGED <<parameters, image, ctxVars, raised, lastEval, evalCalls, sampled, nCalls,
                   promptTokens, t>>

\* the specifications: every sequence of calls under a few configurations and
\* random draws; generation alone, evaluation alone and sampling alone under
\* many
FewDraws == {0, 2, EOSToken}
CallConfigs ==
    {Params(anti, 1, 1, 0, FALSE, -1, NoBias, 0, 0) : anti \in {<<>>, <<<<65>>>>}}
CallInputs == {<<0>>, <<1, 2>>}

Next ==
    \/ \E prompt \in Prompts : Generate(prompt)
    \/ GenEvaluate
    \/ GenSample(FewDraws)
    \/ GenDecode
    \/ \E ids \in CallInputs, batch \in 0..MaxBatch : Evaluate(ids, batch)
    \/ Reset

Init == InitWith(CallConfigs)
Spec == Init /\ [][Next]_vars

NextGen ==
    \/ \E prompt \in Prompts : Generate(prompt)
    \/ GenEvaluate
    \/ GenSample(Vocab)
    \/ GenDecode

InitGen == InitWith(GenConfigs)
SpecGen == InitGen /\ [][NextGen]_vars

\* evaluate alone: every input, every batch size, logitsAll on and off
EvalConfigs == {Params(<<>>, 1, 1, 0, all, -1, NoBias, 0, 0) : all \in BOOLEAN}

\* the capacities update() installs, with the configuration otherwise as it
\* is: one smaller than a chunk can be, and the one the model was built with
Capacities == {nCtx - 3, nCtx}

NextEval ==
    \/ \E ids \in EvalInputs, batch \in 0..MaxBatch : Evaluate(ids, batch)
    \/ Reset
    \/ \E k \in Capacities : Update([parameters EXCEPT !.nCtx = k])

InitEval == InitWith(EvalConfigs)
SpecEval == InitEval /\ [][NextEval]_vars

\* sampling alone, on whatever context evaluate has left
BiasOnZero == [v \in {0} |-> 2]
SampleConfigs ==
    {Params(<<>>, 1, temp, miro, FALSE, keep, bias, pen, pen) :
        temp \in {0, 1}, miro \in {0, 1, 2}, keep \in {-1, 2},
        bias \in {NoBias, BiasOnZero}, pen \in {0, 1}}

\* the temperatures update() installs between samples, with the
\* configuration otherwise as it is
Temperatures == {0, 1}

NextSample ==
    \/ \E ids \in CallInputs : Evaluate(ids, GenBatch)
    \/ Sample(FewDraws)
    \/ \E temp \in Temperatures :
          Update([parameters EXCEPT !.temperature = temp])

InitSample == InitWith(SampleConfigs)
SpecSample == InitSample /\ [][NextSample]_vars

\* generation under the sampler's settings: each mirostat mode, with and
\* without a logit bias
TunedConfigs ==
    {Params(<<>>, 1, 1, miro, FALSE, -1, bias, 0, 0) :
        miro \in {0, 1, 2}, bias \in {NoBias, BiasOnZero}}

NextTuned ==
    \/ \E prompt \in Prompts : Generate(prompt)
    \/ GenEvaluate
    \/ GenSample(FewDraws)
    \/ GenDecode

InitTuned == InitWith(TunedConfigs)
SpecTuned == InitTuned /\ [][NextTuned]_vars

\* generateTokens under a caller that sends tokens when it resumes it
SendConfigs ==
    {Params(<<>>, 1, temp, 0, FALSE, -1, NoBias, 0, 0) : temp \in {0, 1}}
\* the lists a generator is created on, and the lists a caller sends
StartLists == {<<>>, <<0>>}
SentLists == {<<>>, <<0>>, <<1, 2>>}

NextSend ==
    \/ \E toks \in StartLists : GenTokensStart(toks)
    \/ GenEvaluate
    \/ GenSample(FewDraws)
    \/ \E sent \in SentLists : GenSend(sent)

InitSend == InitWith(SendConfigs)
SpecSend == InitSend /\ [][NextSend]_vars

\* LlamaLlavaModel.response: logitsAll on and off, system prompts (which start
\* with the BOS token), user prompts (the empty string tokenizes to no token),
\* batch sizes, an image of one position, a call with and without a URL
LlavaConfigs ==
    {Params(<<>>, n, temp, 0, all, -1, NoBias, 0, 0) :
        n \in 0..MaxPredict, temp \in {0, 1}, all \in BOOLEAN}
SystemPrompts == {<<0>>, <<0, 1>>}
UserPrompts == {<<>>, <<0>>, <<1, 0>>}
ImageSizes == {1}
ImageUrls == {"None", "url"}

NextLlava ==
    \/ \E sys \in SystemPrompts, prompt \in UserPrompts, batch \in 1..MaxBatch,
          imageurl \in ImageUrls : LlavaResponse(sys, prompt, batch, imageurl)
    \/ \E fetched \in BOOLEAN, n \in ImageSizes : LlavaFetch(fetched, n)
    \/ GenEvaluate
    \/ GenSample(FewDraws)
    \/ LlavaDecode
    \/ Reset

InitLlava == InitWith(LlavaConfigs)
SpecLlava == InitLlava /\ [][NextLlava]_vars

---------------------------------------------------------------------------
(* Vocabulary of the claims *)

\* the bytes generate has buffered, before any anti-prompt cut
Buffered == BytesOf(tokens)

\* some configured anti-prompt occurs in buf
HasAntiPrompt(buf) == \E a \in Range(parameters.antiPrompt) : Contains(buf, a)

\* buf ends in a truncated character: one of its last three bytes starts a
\* character of more bytes than the buffer holds from there on, and the bytes
\* after it are its continuation bytes
EndsTruncated(buf) ==
    \E j \in 1..Min(3, Len(buf)) :
        LET i == Len(buf) - j + 1
        IN  /\ Need(buf[i]) > j
            /\ ContRun(buf, i, 1, Need(buf[i])) = j - 1

\* the last pass through the loop body made the anti-prompt check
ChecksMade == path \in {"anti", "length", "continue"}

---------------------------------------------------------------------------
(* C1 *)

\* C1 (as claimed): as long as no anti-prompt has appeared in the buffer and
\* no stop token was sampled, generate has accepted at most n_predict tokens.
C1_AtMostNPredictAccepted ==
    ~HasAntiPrompt(Buffered) => Len(tokens) <= parameters.n_predict

\* C1, read with the cap test's own boundary (one token past n_predict): still
\* not an invariant, because a pass the incomplete-byte guard ends skips the
\* cap test.
C1_AtMostOnePastCap ==
    ~HasAntiPrompt(Buffered) => Len(tokens) <= parameters.n_predict + 1

---------------------------------------------------------------------------
(* C2 *)

\* C2 (as claimed): on a pass whose buffer ends in a truncated character the
\* anti-prompt check and the length check are not made.
C2_NoChecksOnTruncatedTail == ChecksMade => ~EndsTruncated(Buffered)

---------------------------------------------------------------------------
(* C3 *)

\* C3 (as claimed): when generate stops on an anti-prompt, the text it returns
\* contains none of the configured anti-prompts.
C3_ResultHasNoAntiPrompt ==
    (pc = "done" /\ path = "anti") => ~HasAntiPrompt(result)

---------------------------------------------------------------------------
(* C4 *)

\* an evaluate call has just returned without raising
EvaluateReturned == op = "evaluate" /\ raised = "none"

\* C4 (as claimed): after evaluate returns without error, pastTokens is its
\* value before the call plus len(ids), and inputIds holds ids there, for every
\* ids and every batch size.
C4_CountAdvancesByLenIds ==
    EvaluateReturned =>
        /\ pastTokens = lastEval.past0 + Len(lastEval.ids)
        /\ Slice(inputIds, lastEval.past0, pastTokens) = lastEval.ids

---------------------------------------------------------------------------
(* C6 *)

\* tokens the first k llama_eval calls of the last evaluate were handed
RECURSIVE TokensCalled(_)
TokensCalled(k) == IF k = 0 THEN 0 ELSE TokensCalled(k - 1) + Len(evalCalls[k].tokens)

\* C6 (as claimed): the engine is never invoked on a chunk that would take the
\* evaluated count past the capacity.
C6_NoEngineCallPastCapacity ==
    op = "evaluate" =>
        \A k \in 1..Len(evalCalls) :
            lastEval.past0 + TokensCalled(k) <= parameters.nCtx

---------------------------------------------------------------------------
(* C7 *)

\* C7 (as claimed): a prompt of at least nCtx tokens makes generate end with an
\* error surfaced to the caller.
C7_TooLongPromptRaises ==
    (pc = "done" /\ op = "generate" /\ Len(promptTokens) >= parameters.nCtx)
        => raised # "none"

---------------------------------------------------------------------------
(* C5 *)

\* C5: pastTokens never exceeds the context capacity, whatever evaluate and
\* generate calls were made.
C5_PastTokensWithinCapacity == pastTokens <= parameters.nCtx

\* a second generate call on the same model has filled the context and its
\* next evaluation was refused
C5_Witness ==
    /\ nCalls >= 2
    /\ pc = "done"
    /\ path = "raise"
    /\ raised = "ValueError"
    /\ pastTokens = parameters.nCtx

---------------------------------------------------------------------------
(* C8 *)

\* C8: a sampled stop token ends generate on that pass; it is not appended to
\* the accepted tokens or to the byte buffer and it is not evaluated, and the
\* text returned is the decoding of the tokens accepted before it, which are
\* the tokens evaluated after the prompt.
C8_StopTokenEndsGeneration ==
    /\ (t \in StopTokens /\ pc # "decode") => (pc = "done" /\ path = "stop")
    /\ path = "stop" =>
        /\ t \in StopTokens
        /\ result = Decode(BytesOf(tokens))
        /\ tempBytes = BytesOf(tokens)
        /\ Range(tokens) \cap StopTokens = {}
        /\ Range(History(Ctx)) \cap StopTokens = {}
        /\ Range(lastEval.ids) \cap StopTokens = {}
        /\ LastN(History(Ctx), Len(promptTokens) + Len(tokens)) = promptTokens \o tokens

\* generate has stopped on a stop token after accepting tokens that decode to
\* some text
C8_Witness ==
    /\ pc = "done"
    /\ path = "stop"
    /\ Len(tokens) >= 2
    /\ result # <<>>

---------------------------------------------------------------------------
(* C9 *)

\* C9: when the pass that ends generate finds an anti-prompt in the buffer and
\* the accepted tokens past n_predict, the result is the buffer cut at an
\* anti-prompt, decoded, and not the decoding of all the accepted tokens.
C9_AntiPromptBeforeCap ==
    (/\ pc = "done"
     /\ path \in {"anti", "length"}
     /\ HasAntiPrompt(Buffered)
     /\ Len(tokens) > parameters.n_predict)
    => /\ path = "anti"
       /\ \E a \in Range(parameters.antiPrompt) :
            /\ Contains(Buffered, a)
            /\ result = Decode(SubSeq(Buffered, 1, IndexOf(Buffered, a)))
       /\ result # tokensToString(tokens)

\* generate ended on an anti-prompt on a pass that was past the cap as well
C9_Witness ==
    /\ pc = "done"
    /\ path = "anti"
    /\ Len(tokens) > parameters.n_predict

---------------------------------------------------------------------------
(* C10 *)

\* C10: with temperature 0 a sampleTokenWithModel call makes the penalty call
\* and the greedy call and no other, and the token it returns is the argmax of
\* the penalised candidates, whatever mirostat says and whatever a random draw
\* would have given.
C10_GreedyAtTemperatureZero ==
    (op = "sample" /\ raised = "none" /\ parameters.temperature = 0) =>
        /\ sampled.calls = <<"repetition_penalties", "token_greedy">>
        /\ sampled.mu = -1
        /\ sampled.id = Argmax(RepetitionPenalties(sampled.fed, sampled.window,
                                                   parameters))

\* a greedy sample was taken under a configuration that turns mirostat on
C10_Witness ==
    /\ op = "sample"
    /\ raised = "none"
    /\ parameters.temperature = 0
    /\ parameters.mirostat = 2
    /\ sampled.id \in Vocab

---------------------------------------------------------------------------
(* C11 *)

\* a sampling step of generate that ran a mirostat sampler is being taken
MirostatStep ==
    /\ pc = "sample"
    /\ pc' = "decode"
    /\ Strategy(parameters) \in {"mirostat", "mirostat_v2"}

\* C11 (as claimed): within one generate call the mu handed to the mirostat
\* sampler is 2 * tau on the first sampling step, and on every later step it is
\* the mu the previous step's update left.
C11_MuCarriedAcrossSteps ==
    [][MirostatStep =>
          IF sampled = NoSample
          THEN sampled'.mu = 2 * parameters.mirostat_tau
          ELSE sampled'.mu = sampled.muOut]_vars

---------------------------------------------------------------------------
(* C12 *)

\* the logits the evaluation produced for the latest position of the context
EvaluatedLogits == LlamaGetLogits(inputIds[pastTokens], pastTokens)

\* C12: at every sampling step of generate, the logit fed into the penalties
\* and the strategy is, for each token of logit_bias, the logit the evaluation
\* produced for the latest position times that token's bias, and for every
\* other token that logit unchanged.
C12_BiasMultipliesOnce ==
    pc = "decode" =>
        /\ DOMAIN sampled.fed = Vocab
        /\ \A v \in Vocab :
              sampled.fed[v] =
                  IF v \in DOMAIN parameters.logit_bias
                  THEN EvaluatedLogits[v] * parameters.logit_bias[v]
                  ELSE EvaluatedLogits[v]

\* a later sampling step of a generate call under a bias of 2 on token 0 whose
\* evaluated logit was 1: the logit fed is 2
C12_Witness ==
    /\ pc = "decode"
    /\ Len(tokens) >= 1
    /\ parameters.logit_bias = BiasOnZero
    /\ EvaluatedLogits[0] = 1
    /\ sampled.fed[0] = 2

---------------------------------------------------------------------------
(* C13 *)

\* tokens of the chunks the last evaluate recorded
Recorded == pastTokens - lastEval.past0

\* the state an evaluate that met a non-zero engine status leaves
FailedEvaluation ==
    /\ op = "evaluate"
    /\ Len(evalCalls) >= 1
    /\ Recorded = TokensCalled(Len(evalCalls) - 1)
    /\ Slice(inputIds, lastEval.past0, pastTokens) = Slice(lastEval.ids, 0, Recorded)
    /\ Recorded > 0 => scores[pastTokens] = LlamaGetLogits(inputIds[pastTokens], pastTokens)
    /\ Len(evalCalls) = NChunks(Slice(lastEval.ids, 0, Recorded), lastEval.batch) + 1
    /\ pc \in {"idle", "done"}
    /\ pc = "done" => (path = "raise" /\ result = NoResult)

\* the step that raises writes nothing past the chunks that succeeded
FailedChunkNotWritten ==
    raised' = "RuntimeError" =>
        \A i \in (pastTokens' + 1)..Len(inputIds) :
            inputIds'[i] = inputIds[i] /\ scores'[i] = scores[i]

\* C13: a non-zero engine status makes evaluate raise; the error ends generate
\* without a value; pastTokens, inputIds and scores hold the chunks that
\* succeeded before the failed one and nothing of it; the failed chunk is the
\* last one handed to the engine; no sampling step follows.
C13_EvaluationFailureIsFatal ==
    /\ [](raised = "RuntimeError" => FailedEvaluation)
    /\ [][FailedChunkNotWritten]_vars

\* generate ended on the engine's failure while evaluating a token it had
\* sampled and accepted; the prompt's evaluation is kept
C13_Witness ==
    /\ raised = "RuntimeError"
    /\ pc = "done"
    /\ path = "raise"
    /\ Len(tokens) >= 1
    /\ History(Ctx) = promptTokens \o SubSeq(tokens, 1, Len(tokens) - 1)

---------------------------------------------------------------------------
(* C14 *)

\* generate has been called and no token was sampled in this call yet
BeforeFirstSample == pc \in {"eval", "sample"} /\ t = -1

\* C14 (as claimed): every generate call, a second call on the same model
\* included, starts with pastTokens = 0, and its first evaluation hands the
\* engine n_past = 0.
C14_EachCallStartsAtZero ==
    /\ (BeforeFirstSample /\ pc = "eval") => pastTokens = 0
    /\ (BeforeFirstSample /\ pc = "sample") =>
          /\ lastEval.past0 = 0
          /\ \A k \in 1..Min(1, Len(evalCalls)) : evalCalls[k].n_past = 0

---------------------------------------------------------------------------
(* C15 *)

\* the moves of generate from one step to the next: evaluate, then sample,
\* then decode, then evaluate again; any step may end the call
StepCycle ==
    {<<"idle", "eval">>, <<"done", "eval">>, <<"idle", "done">>,
     <<"eval", "sample">>, <<"sample", "decode">>, <<"decode", "eval">>,
     <<"eval", "done">>, <<"sample", "done">>, <<"decode", "done">>}

\* the tokens pending at a sampling step: the prompt on the first step, the
\* previously sampled token afterwards
Pending == IF t = -1 THEN promptTokens ELSE <<t>>

\* at a sampling step the last operation was the evaluation of the pending
\* tokens, and it recorded them
PendingEvaluated ==
    /\ op = "evaluate"
    /\ raised = "none"
    /\ lastEval.ids = Pending
    /\ genTokens = Pending
    /\ pastTokens = lastEval.past0 + Len(Pending)
    /\ Slice(inputIds, lastEval.past0, pastTokens) = Pending

\* at a decoding step the last operation was the sampling of the token decoded
DecodedWasSampled ==
    /\ op = "sample"
    /\ raised = "none"
    /\ sampled.id = t
    /\ t \in Vocab

\* C15: generate moves through evaluate, sample, decode in that cycle; a token
\* is sampled only when the pending tokens were evaluated since the previous
\* sample, and the token a decoding step consumes is the one just sampled.
C15_EvaluateSampleDecode ==
    /\ [](pc = "sample" => PendingEvaluated)
    /\ [](pc = "decode" => DecodedWasSampled)
    /\ [][/\ pc' # pc => <<pc, pc'>> \in StepCycle
          /\ (tokens' # tokens /\ nCalls' = nCalls) =>
                (pc = "decode" /\ tokens' = Append(tokens, sampled.id))
          /\ (pc = "sample" /\ pc' = "decode") => sampled'.id = t']_vars

\* the second cycle of a call: the token sampled first was evaluated alone and
\* another token was sampled after it
C15_Witness ==
    /\ pc = "decode"
    /\ Len(tokens) = 1
    /\ lastEval.ids = tokens
    /\ History(Ctx) = promptTokens \o tokens
    /\ sampled.id = t

---------------------------------------------------------------------------
(* C16 *)

\* the most recent n ids of the history, in order
MostRecent(hist, n) == SubSeq(hist, Len(hist) - n + 1, Len(hist))

\* C16 (as claimed): the window handed to the repetition penalties has the
\* window size (n_keep, or nCtx when n_keep is -1), ends with the most recent
\* min(history length, window size) evaluated ids in order, and holds 0 in
\* every cell before them.
C16_WindowIsLeftPaddedTail ==
    (op = "sample" /\ raised = "none") =>
        LET size == lastNTokensSize(parameters)
            n    == Min(Len(History(Ctx)), size)
        IN  /\ Len(sampled.window) = size
            /\ sampled.window = Zeros(size - n) \o MostRecent(History(Ctx), n)

---------------------------------------------------------------------------
(* C17 *)

\* the k-th engine call of the last evaluate got the next chunk of ids, of at
\* most batch tokens, and the past count the claim gives
ChunkAsClaimed(k) ==
    LET done == TokensCalled(k - 1)
        c    == evalCalls[k]
    IN  /\ Len(c.tokens) >= 1
        /\ Len(c.tokens) <= lastEval.batch
        /\ c.tokens = Slice(lastEval.ids, done, done + lastEval.batch)
        /\ c.n_past = Min(parameters.nCtx - Len(c.tokens), lastEval.past0 + done)

\* C17: the engine calls of an evaluate with a batch size of at least 1 are
\* made on consecutive chunks of ids of at most batch tokens, each with
\* n_past = min(nCtx - chunk length, tokens evaluated so far); when evaluate
\* returns, the chunks are all of ids, once and in order.
C17_ChunksCoverIdsInOrder ==
    op = "evaluate" =>
        /\ \A k \in 1..Len(evalCalls) : ChunkAsClaimed(k)
        /\ (raised = "none" /\ lastEval.batch >= 1) =>
              TokensCalled(Len(evalCalls)) = Len(lastEval.ids)

\* three ids were evaluated in chunks of two and one on a context that held
\* one token
C17_Witness ==
    /\ EvaluateReturned
    /\ lastEval.past0 = 1
    /\ lastEval.batch = 2
    /\ Len(lastEval.ids) = 3
    /\ Len(evalCalls) = 2
    /\ evalCalls[2].n_past = 3

---------------------------------------------------------------------------
(* C18 *)

\* the countdown the scan gives for the last three buffered bytes alone
CountdownOfTail == ScanIncomplete(0, tempBytes)

\* C18 (as claimed): the countdown that suppresses the stop checks is the one
\* the last three buffered bytes give, so a pass is only suppressed when the
\* scan of those bytes finds a pending lead byte; none is suppressed by a
\* countdown an earlier token left.
C18_SuppressedOnlyByTail == path = "suppressed" => CountdownOfTail > 0

---------------------------------------------------------------------------
(* C19 *)

\* the generator was resumed with tokens sent and has not yielded since
Resumed == t # -1 /\ tokensON # <<>>

\* C19: after a resumption that sent tokens, the list handed to the next
\* evaluation is the yielded token followed by the sent tokens in order; the
\* sampling step that follows finds all of them evaluated, in one engine call;
\* the token sampled then comes from the logits the evaluation produced for
\* the last sent token.
C19_SentTokensFollowYielded ==
    /\ (pc = "eval" /\ Resumed) => genTokens = <<t>> \o tokensON
    /\ (pc = "sample" /\ Resumed) =>
          /\ EvaluateReturned
          /\ lastEval.ids = <<t>> \o tokensON
          /\ Len(evalCalls) = 1
          /\ evalCalls[1].tokens = <<t>> \o tokensON
          /\ pastTokens = lastEval.past0 + 1 + Len(tokensON)
          /\ Slice(inputIds, lastEval.past0, pastTokens) = <<t>> \o tokensON
    /\ (pc = "decode" /\ tokensON # <<>>) =>
          /\ Tail(lastEval.ids) = tokensON
          /\ inputIds[pastTokens] = tokensON[Len(tokensON)]
          /\ sampled.fed = ApplyBias(LlamaGetLogits(tokensON[Len(tokensON)], pastTokens),
                                     parameters.logit_bias)

\* a token was sampled after a resumption that sent two tokens
C19_Witness ==
    /\ pc = "decode"
    /\ tokensON = <<1, 2>>
    /\ Len(lastEval.ids) = 3
    /\ sampled.id = t

---------------------------------------------------------------------------
(* C20 *)

\* the generate call running is the first one made on the model
OnFreshModel == nCalls = 1

\* C20: in a generate call on a fresh model the evaluated part of inputIds is,
\* at every sampling step, the prompt followed by the tokens sampled before,
\* in order and each once, the tokens of suppressed passes included; between
\* a pass and the next sampling step the token just accepted is the one
\* pending evaluation.
C20_ContextIsPromptThenSampled ==
    OnFreshModel =>
        /\ pc \in {"sample", "decode"} => History(Ctx) = promptTokens \o tokens
        /\ pc = "eval" => History(Ctx) \o genTokens = promptTokens \o tokens
        /\ pc \in {"sample", "decode"} => pastTokens = Len(promptTokens) + Len(tokens)

\* a sampling step that follows a suppressed pass: the token of that pass has
\* been evaluated
C20_Witness ==
    /\ OnFreshModel
    /\ pc = "sample"
    /\ path = "suppressed"
    /\ Len(tokens) = 2
    /\ inputIds[pastTokens] = tokens[2]

---------------------------------------------------------------------------
(* C21 *)

\* C21 (as claimed): a sampleTokenWithModel call leaves inputIds, pastTokens
\* and the stored scores as they were, so a second call on the same context
\* state feeds the strategy the same biased logits as the first.
C21_SamplingLeavesContextAlone ==
    [][op' = "sample" =>
          /\ inputIds' = inputIds
          /\ pastTokens' = pastTokens
          /\ scores' = scores
          /\ (op = "sample" /\ raised = "none" /\ raised' = "none") =>
                sampled'.fed = sampled.fed]_vars

---------------------------------------------------------------------------
(* C22 *)

\* C22 (as claimed): whenever sampleTokenWithModel is about to read the logits
\* row at pastTokens - 1, pastTokens is positive and an evaluation has written
\* that row and the id of its position.
C22_SampledRowWasEvaluated ==
    pc = "sample" =>
        /\ pastTokens > 0
        /\ pastTokens <= Len(scores)
        /\ scores[pastTokens] # UninitRow
        /\ inputIds[pastTokens] # Uninit

====
